---- MODULE Spec2Model ----
(***************************************************************************)
(* A model of functions/covid19_pdf.js: pdfGenerateFile(datetime, country, *)
(* image_file), the async function that assembles a pdfmake document       *)
(* definition from the statistics of a country and its stored comments and *)
(* writes it to LOCAL_FOLDER/Report-<country>-<timestamp>.pdf.             *)
(*                                                                         *)
(* One action is one run of the function between two suspension points     *)
(* (an await): JavaScript runs such a stretch without interleaving.        *)
(* The Japanese string literals of the source are written here in ASCII    *)
(* (the module's strings are ASCII); each is named after its literal.      *)
(***************************************************************************)
EXTENDS Integers, Sequences, FiniteSets, TLC

VARIABLES
  pc,           \* per invocation: where the async function is suspended
  datetime,     \* parameter datetime
  country,      \* parameter country
  image_file,   \* parameter image_file
  result,       \* const result = await httpGet(url)
  translated,   \* let translated
  info_table,   \* let info_table
  status_table, \* let status_table
  timestamp,    \* let timestamp
  output_file,  \* let output_file
  content,      \* docDefinition.content
  comments,     \* let comments = await commentGet(country)
  handed,       \* the docDefinition passed to printer.createPdfKitDocument
  outcome,      \* how the call's promise settled
  trace,        \* the calls this invocation made to its collaborators
  logged,       \* the console lines this invocation wrote
  clock,        \* the time currentTimeStamp() reads
  files         \* the destination folder: path -> state of the file

vars == <<pc, datetime, country, image_file, result, translated, info_table,
          status_table, timestamp, output_file, content, comments, handed,
          outcome, trace, logged, clock, files>>

locals == <<datetime, country, image_file, result, translated, info_table,
            status_table, timestamp, output_file, content, comments, handed>>

(***************************************************************************)
(* Bounds of the model.                                                    *)
(***************************************************************************)
MaxComments == 2   \* the longest list commentGet returns
MaxClock == 2      \* how many times the timestamp token changes

\* The invocations that may run: 1 in Spec, 1 and 2 in SpecConc.
Procs == {1, 2}

(***************************************************************************)
(* JavaScript values.                                                      *)
(***************************************************************************)
\* null where a string is expected (output_file, translated, a return value)
NULL == "null"
\* a property that an object does not have (id, style)
UNDEFINED == "undefined"

\* process.env.BASE_URL and process.env.LOCAL_FOLDER (lines 20-21), read once
\* when the module is loaded
BASE_URL == "https://disease.sh/v3/covid-19/"
LOCAL_FOLDER == "./output"

\* the inputs the model draws from
Datetimes == {"2021-05-01 10:00"}
Countries == {"all", "Japan"}
Images == {"", "chart.png"}
Translations == {NULL, "Nihon"}

\* httpGet: null, or the record of the country
NoResult == [null |-> TRUE]
StatsA ==
  [null |-> FALSE, population |-> 1234567, active |-> 1000, critical |-> 50,
   recovered |-> 900, cases |-> 2000, deaths |-> 30, tests |-> 500000]
StatsB ==
  [null |-> FALSE, population |-> 999, active |-> 0, critical |-> 0,
   recovered |-> 12, cases |-> 12345, deaths |-> 0, tests |-> 1000000]
StatsResults == {NoResult, StatsA, StatsB}

\* commentGet: null, or a list of {datetime, comment}
Date(y, m, d, h, mi) == [Y |-> y, M |-> m, D |-> d, H |-> h, MI |-> mi]
CommentEntries ==
  { [datetime |-> Date(2021, 3, 5, 9, 7), comment |-> "state of emergency"],
    [datetime |-> Date(2021, 11, 23, 18, 30), comment |-> "fifth wave over"] }
NoComments == [null |-> TRUE, list |-> <<>>]
CommentLists(max) ==
  { [null |-> FALSE, list |-> s] :
      s \in UNION { [1..n -> CommentEntries] : n \in 0..max } }
CommentResults == {NoComments} \cup CommentLists(MaxComments)

\* the statements of the try block that may throw, or none of them
Failures ==
  {"none", "PdfPrinter", "createPdfKitDocument", "createWriteStream",
   "pipe", "end"}

(***************************************************************************)
(* Pure parts of pdfGenerateFile.                                          *)
(***************************************************************************)
\* line 57: image_file == ""
IsEmptyImageNull(img) == img = NULL
IsEmptyImage(img) == img = ""

\* lines 61-62
Url(c) == IF c = "all" THEN BASE_URL \o "all" ELSE BASE_URL \o "countries/" \o c

\* line 65: result != null
HasResult(r) == ~r.null

\* Number(n).toLocaleString() of a non-negative integer, in the en-US
\* locale: groups of three digits separated by commas
Pad3(k) ==
  IF k < 10 THEN "00" \o ToString(k)
  ELSE IF k < 100 THEN "0" \o ToString(k) ELSE ToString(k)
RECURSIVE toLocaleString(_)
toLocaleString(n) ==
  IF n < 1000 THEN ToString(n)
  ELSE toLocaleString(n \div 1000) \o "," \o Pad3(n % 1000)

\* date-utils toFormat("YYYY-MM-DD HH24:MI")
Pad2(k) == IF k < 10 THEN "0" \o ToString(k) ELSE ToString(k)
toFormat(d) ==
  ToString(d.Y) \o "-" \o Pad2(d.M) \o "-" \o Pad2(d.D) \o " "
    \o Pad2(d.H) \o ":" \o Pad2(d.MI)

\* the nodes of a pdfmake document, all of one shape
Node(kind, text, style, id, body, image) ==
  [kind |-> kind, text |-> text, style |-> style, id |-> id, body |-> body,
   image |-> image]
\* a string in the content array
StringNode(s) == Node("string", s, UNDEFINED, UNDEFINED, <<>>, UNDEFINED)
\* { text: ..., style: ... }
TextNode(text, style) == Node("text", text, style, UNDEFINED, <<>>, UNDEFINED)
\* { text: ..., style: ..., id: ... }
TextNodeId(text, style, id) == Node("text", text, style, id, <<>>, UNDEFINED)
\* { style: 'tableBody', table: { heights: 20, body: [...] } }
TableNode(body) == Node("table", UNDEFINED, "tableBody", UNDEFINED, body, UNDEFINED)
\* { image: image_file, width: 450, height: 300 }
ImageNode(img) == Node("image", UNDEFINED, UNDEFINED, UNDEFINED, <<>>, img)
\* the cells of a table: {text: ..., style: 'tableHeader'}, or a string
HeaderCell(text) == [text |-> text, style |-> "tableHeader"]
Cell(s) == [text |-> s, style |-> UNDEFINED]

\* line 68: if (translated == null) translated = country
TranslatedOr(t, c) == IF t = NULL THEN c ELSE t

\* lines 69-79: the table of the country
InfoTable(name, r) ==
  TableNode(<< <<HeaderCell("Kokumei"), HeaderCell("Jinkou")>>,
               <<Cell(name), Cell(toLocaleString(r.population))>> >>)

\* lines 81-100: the table of the infection status
StatusTableSwapped(r) ==
  TableNode(<< <<HeaderCell("Kansensha-suu"), Cell(toLocaleString(r.active))>>,
               <<HeaderCell("Juubyousha-suu"), Cell(toLocaleString(r.critical))>>,
               <<HeaderCell("Taiin / ryouyou shuuryou"), Cell(toLocaleString(r.recovered))>>,
               <<HeaderCell("Shibousha ruikei"), Cell(toLocaleString(r.deaths))>>,
               <<HeaderCell("Kansensha ruikei"), Cell(toLocaleString(r.cases))>>,
               <<HeaderCell("Kensa-suu"), Cell(toLocaleString(r.tests))>> >>)
StatusTable(r) ==
  TableNode(<< <<HeaderCell("Kansensha-suu"), Cell(toLocaleString(r.active))>>,
               <<HeaderCell("Juubyousha-suu"), Cell(toLocaleString(r.critical))>>,
               <<HeaderCell("Taiin / ryouyou shuuryou"), Cell(toLocaleString(r.recovered))>>,
               <<HeaderCell("Kansensha ruikei"), Cell(toLocaleString(r.cases))>>,
               <<HeaderCell("Shibousha ruikei"), Cell(toLocaleString(r.deaths))>>,
               <<HeaderCell("Kensa-suu"), Cell(toLocaleString(r.tests))>> >>)

\* line 104
OutputFileNoStamp(c, ts) == LOCAL_FOLDER \o "/Report-" \o c \o ".pdf"
OutputFile(c, ts) == LOCAL_FOLDER \o "/Report-" \o c \o "-" \o ts \o ".pdf"

\* lines 108-123: docDefinition.content as first built
DocContentSkipEmpty(dt, info, status, img) ==
  SelectSeq(<< TextNode("COVID-19 report", "title"),
               TextNode("Sakusei jikoku: " \o dt, "datetime"),
               info,
               TextNode("Kansen joukyou:", "sub_title"),
               status,
               TextNode("Kansen rireki graph:", "sub_title"),
               ImageNode(img) >>,
            LAMBDA n : n.kind # "string")
DocContent(dt, info, status, img) ==
  << TextNode("COVID-19 report", "title"),
     TextNode("Sakusei jikoku: " \o dt, "datetime"),
     info,
     TextNode("Kansen joukyou:", "sub_title"),
     status,
     TextNode("Kansen rireki graph:", "sub_title"),
     ImageNode(img) >>

\* lines 125-131: docDefinition.pageBreakBefore
pageBreakBeforeStyle(currentNode) == currentNode.style = "sub_title"
pageBreakBefore(currentNode) == currentNode.id = "comment"

\* line 166: comments != null && comments.length > 0
HasCommentsNotNull(cs) == ~cs.null
HasComments(cs) == ~cs.null /\ Len(cs.list) > 0

\* lines 167-181: comment_table, a header row and then a row per comment
RECURSIVE CommentRows(_, _, _)
CommentRows(body, list, i) ==
  IF i > Len(list) THEN body
  ELSE CommentRows(Append(body, <<Cell(toFormat(list[i].datetime)),
                                  Cell(list[i].comment)>>), list, i + 1)
CommentTable(list) ==
  TableNode(CommentRows(<< <<HeaderCell("Nichiji"), HeaderCell("Comment")>> >>,
                        list, 1))

\* lines 184-186: the two pushes
PushCommentsTableFirst(c, list) ==
  Append(Append(c, CommentTable(list)),
         TextNodeId("Comment:", "sub_title", "comment"))
PushComments(c, list) ==
  Append(Append(c, TextNodeId("Comment:", "sub_title", "comment")),
         CommentTable(list))

(***************************************************************************)
(* The collaborators: what the function observes of them.                  *)
(***************************************************************************)
\* one entry of trace: a call of op, or its return, or its throwing
Ev(ev, op) == [ev |-> ev, op |-> op]
Called(p, op) == \E i \in 1..Len(trace[p]) : trace[p][i] = Ev("call", op)
Returned(p, op) == \E i \in 1..Len(trace[p]) : trace[p][i] = Ev("return", op)
Raised(p) == \E i \in 1..Len(trace[p]) : trace[p][i].ev = "throw"
\* the operations called and neither returned nor failed yet
InFlight(p) ==
  { op \in { trace[p][i].op : i \in 1..Len(trace[p]) } :
      Cardinality({ i \in 1..Len(trace[p]) : trace[p][i] = Ev("call", op) })
        > Cardinality({ i \in 1..Len(trace[p]) :
                          trace[p][i].op = op /\ trace[p][i].ev # "call" }) }

\* currentTimeStamp() of ./current_time: a token of the current time
currentTimeStamp == "T" \o ToString(clock)

\* the file at a path: "absent", "open" (created, not yet complete) or
\* "complete"
FileState(path) == IF path \in DOMAIN files THEN files[path] ELSE "absent"

\* how the promise of a call settles
Pending == [kind |-> "pending", value |-> NULL]
Return(v) == [kind |-> "return", value |-> v]
Throw(name) == [kind |-> "throw", value |-> name]

(***************************************************************************)
(* The try block, lines 190-201.                                           *)
(***************************************************************************)
\* lines 191-195: the synchronous statements of the try block, in order
TryOrder ==
  <<"PdfPrinter", "createPdfKitDocument", "createWriteStream", "pipe", "end">>
Pos(f) ==
  IF f = "none" THEN Len(TryOrder) + 1
  ELSE CHOOSE i \in 1..Len(TryOrder) : TryOrder[i] = f
\* the statement op is run when f is the one that throws
Reached(f, op) == Pos(op) <= Pos(f)
\* ... and returns
Completed(f, op) == Pos(op) < Pos(f)
RECURSIVE TryEvents(_, _)
TryEvents(f, i) ==
  IF i > Len(TryOrder) THEN <<Ev("call", "finished")>>
  ELSE IF TryOrder[i] = f THEN <<Ev("call", f), Ev("throw", f)>>
  ELSE <<Ev("call", TryOrder[i]), Ev("return", TryOrder[i])>> \o TryEvents(f, i + 1)

\* line 197
InfoLine(path) == [level |-> "info", text |-> "[INFO]  " \o path \o " has been saved."]
\* line 199: ex.name + ": " + ex.message
ErrorLine(f) == [level |-> "error", text |-> "Error: " \o f \o " failed"]

\* lines 198-203, after console.error: under 'use strict' (line 1) the
\* assignment  output = null  to the undeclared name output throws a
\* ReferenceError out of the catch block, so line 203 is not reached
CatchOutcome(path) == Throw("ReferenceError")

(***************************************************************************)
(* The state after construction: no call made yet.                         *)
(***************************************************************************)
Init ==
  /\ pc = [p \in Procs |-> "idle"]
  /\ datetime = [p \in Procs |-> NULL]
  /\ country = [p \in Procs |-> NULL]
  /\ image_file = [p \in Procs |-> NULL]
  /\ result = [p \in Procs |-> NoResult]
  /\ translated = [p \in Procs |-> NULL]
  /\ info_table = [p \in Procs |-> StringNode("")]
  /\ status_table = [p \in Procs |-> StringNode("")]
  /\ timestamp = [p \in Procs |-> NULL]
  /\ output_file = [p \in Procs |-> NULL]
  /\ content = [p \in Procs |-> <<>>]
  /\ comments = [p \in Procs |-> NoComments]
  /\ handed = [p \in Procs |-> [given |-> FALSE, content |-> <<>>]]
  /\ outcome = [p \in Procs |-> Pending]
  /\ trace = [p \in Procs |-> <<>>]
  /\ logged = [p \in Procs |-> <<>>]
  /\ clock = 0
  /\ files = <<>>

(***************************************************************************)
(* The actions.                                                            *)
(***************************************************************************)
\* time passes: currentTimeStamp() gives another token
Tick ==
  /\ clock < MaxClock
  /\ clock' = clock + 1
  /\ UNCHANGED <<pc, locals, outcome, trace, logged, files>>

\* lines 55-64: the call, up to  await httpGet(url)
Call(p, Cs, Imgs) ==
  /\ pc[p] = "idle"
  /\ \E dt \in Datetimes, c \in Cs, img \in Imgs :
       /\ datetime' = [datetime EXCEPT ![p] = dt]
       /\ country' = [country EXCEPT ![p] = c]
       /\ image_file' = [image_file EXCEPT ![p] = img]
       /\ IF IsEmptyImage(img)
          THEN /\ pc' = [pc EXCEPT ![p] = "done"]
               /\ outcome' = [outcome EXCEPT ![p] = Return(NULL)]
               /\ UNCHANGED trace
          ELSE /\ pc' = [pc EXCEPT ![p] = "await_httpGet"]
               /\ trace' = [trace EXCEPT ![p] = Append(@, Ev("call", "httpGet"))]
               /\ UNCHANGED outcome
  /\ UNCHANGED <<result, translated, info_table, status_table, timestamp,
                 output_file, content, comments, handed, logged, clock, files>>

\* lines 103-165: the output path, the document definition, and the call of
\* commentGet; info and status are the two tables, tr the trace so far
Assemble(p, info, status, tr) ==
  /\ info_table' = [info_table EXCEPT ![p] = info]
  /\ status_table' = [status_table EXCEPT ![p] = status]
  /\ timestamp' = [timestamp EXCEPT ![p] = currentTimeStamp]
  /\ output_file' = [output_file EXCEPT ![p] = OutputFile(country[p], currentTimeStamp)]
  /\ content' = [content EXCEPT ![p] = DocContent(datetime[p], info, status, image_file[p])]
  /\ trace' = [trace EXCEPT ![p] = Append(tr, Ev("call", "commentGet"))]
  /\ pc' = [pc EXCEPT ![p] = "await_commentGet"]

\* HttpGetReturn with translateCountryName started and not awaited
HttpGetReturnNoAwait(p, Rs) ==
  /\ pc[p] = "await_httpGet"
  /\ \E r \in Rs :
       /\ result' = [result EXCEPT ![p] = r]
       /\ IF HasResult(r)
          THEN Assemble(p, InfoTable(country[p], r), StatusTable(r),
                        trace[p] \o <<Ev("return", "httpGet"),
                                      Ev("call", "translateCountryName")>>)
          ELSE Assemble(p, StringNode(""), StringNode(""),
                        Append(trace[p], Ev("return", "httpGet")))
  /\ UNCHANGED <<datetime, country, image_file, translated, comments, handed,
                 outcome, logged, clock, files>>

\* lines 64-67 and, when result is null, 103-165: httpGet settles
HttpGetReturn(p, Rs) ==
  /\ pc[p] = "await_httpGet"
  /\ \E r \in Rs :
       /\ result' = [result EXCEPT ![p] = r]
       /\ IF HasResult(r)
          THEN /\ pc' = [pc EXCEPT ![p] = "await_translate"]
               /\ trace' = [trace EXCEPT ![p] =
                    @ \o <<Ev("return", "httpGet"), Ev("call", "translateCountryName")>>]
               /\ UNCHANGED <<info_table, status_table, timestamp, output_file, content>>
          ELSE Assemble(p, StringNode(""), StringNode(""),
                        Append(trace[p], Ev("return", "httpGet")))
  /\ UNCHANGED <<datetime, country, image_file, translated, comments, handed,
                 outcome, logged, clock, files>>

\* lines 67-165: translateCountryName settles
TranslateReturn(p, Ts) ==
  /\ pc[p] = "await_translate"
  /\ \E t \in Ts :
       /\ translated' = [translated EXCEPT ![p] = TranslatedOr(t, country[p])]
       /\ Assemble(p, InfoTable(TranslatedOr(t, country[p]), result[p]),
                   StatusTable(result[p]),
                   Append(trace[p], Ev("return", "translateCountryName")))
  /\ UNCHANGED <<datetime, country, image_file, result, comments, handed,
                 outcome, logged, clock, files>>

\* lines 198-203: the catch block, after statement f threw
Catch(p, f) ==
  /\ logged' = [logged EXCEPT ![p] = Append(@, ErrorLine(f))]
  /\ outcome' = [outcome EXCEPT ![p] = CatchOutcome(output_file[p])]
  /\ pc' = [pc EXCEPT ![p] = "done"]

\* lines 165-196: commentGet settles; the comment section; the try block up
\* to  await finished(ws), or to the statement that throws
CommentGetReturn(p, Cms, Fs) ==
  /\ pc[p] = "await_commentGet"
  /\ \E cs \in Cms, f \in Fs :
       LET doc == IF HasComments(cs) THEN PushComments(content[p], cs.list)
                  ELSE content[p]
       IN /\ comments' = [comments EXCEPT ![p] = cs]
          /\ content' = [content EXCEPT ![p] = doc]
          /\ trace' = [trace EXCEPT ![p] =
               Append(@, Ev("return", "commentGet")) \o TryEvents(f, 1)]
          /\ handed' = [handed EXCEPT ![p] =
               IF Reached(f, "createPdfKitDocument")
               THEN [given |-> TRUE, content |-> doc] ELSE @]
          /\ files' = IF Completed(f, "createWriteStream")
                      THEN (output_file[p] :> "open") @@ files ELSE files
          /\ IF f = "none"
             THEN /\ pc' = [pc EXCEPT ![p] = "await_finished"]
                  /\ UNCHANGED <<outcome, logged>>
             ELSE Catch(p, f)
  /\ UNCHANGED <<datetime, country, image_file, result, translated, info_table,
                 status_table, timestamp, output_file, clock>>

\* lines 196-203: finished(ws) settles: the stream has closed, or has failed
FinishedReturn(p) ==
  /\ pc[p] = "await_finished"
  /\ \E ok \in BOOLEAN :
       IF ok
       THEN /\ trace' = [trace EXCEPT ![p] = Append(@, Ev("return", "finished"))]
            /\ files' = (output_file[p] :> "complete") @@ files
            /\ logged' = [logged EXCEPT ![p] = Append(@, InfoLine(output_file[p]))]
            /\ outcome' = [outcome EXCEPT ![p] = Return(output_file[p])]
            /\ pc' = [pc EXCEPT ![p] = "done"]
       ELSE /\ trace' = [trace EXCEPT ![p] = Append(@, Ev("throw", "finished"))]
            /\ Catch(p, "finished")
            /\ UNCHANGED files
  /\ UNCHANGED <<locals, clock>>

\* one call of pdfGenerateFile, run alone
Next ==
  \/ Tick
  \/ Call(1, Countries, Images)
  \/ HttpGetReturn(1, StatsResults)
  \/ TranslateReturn(1, Translations)
  \/ CommentGetReturn(1, CommentResults, Failures)
  \/ FinishedReturn(1)

Spec == Init /\ [][Next]_vars

\* two calls of pdfGenerateFile, interleaved at their awaits
ConcResults == {NoResult, StatsA}
ConcTranslations == {NULL}
ConcComments == {NoComments}
ConcFailures == {"none", "createWriteStream"}
NextConc ==
  \/ Tick
  \/ \E p \in Procs : Call(p, Countries, {"chart.png"})
  \/ \E p \in Procs : HttpGetReturn(p, ConcResults)
  \/ \E p \in Procs : TranslateReturn(p, ConcTranslations)
  \/ \E p \in Procs : CommentGetReturn(p, ConcComments, ConcFailures)
  \/ \E p \in Procs : FinishedReturn(p)

SpecConc == Init /\ [][NextConc]_vars

(***************************************************************************)
(* What the properties below read off a state.                             *)
(***************************************************************************)
\* the literal nodes of lines 110-122
TitleNode == TextNode("COVID-19 report", "title")
DatetimeNode(dt) == TextNode("Sakusei jikoku: " \o dt, "datetime")
StatusHeading == TextNode("Kansen joukyou:", "sub_title")
ChartHeading == TextNode("Kansen rireki graph:", "sub_title")
CommentHeading == TextNodeId("Comment:", "sub_title", "comment")

\* the nodes of a content array before its comment section
CommentAt(c) == { i \in 1..Len(c) : c[i].id = "comment" }
BasePart(c) ==
  IF CommentAt(c) = {} THEN c
  ELSE SubSeq(c, 1, (CHOOSE i \in CommentAt(c) : \A j \in CommentAt(c) : i <= j) - 1)
TablesOf(c) == { i \in 1..Len(c) : c[i].kind = "table" }
\* the second column of a table, top to bottom
Column(node, k) == [i \in 1..Len(node.body) |-> node.body[i][k].text]

\* the invocation ran past the image check
Started(p) == pc[p] # "idle" /\ ~IsEmptyImage(image_file[p])
\* commentGet returned one entry or more
Annotated(p) == ~comments[p].null /\ Len(comments[p].list) >= 1
\* the call returned its output path
ReturnedPath(p) ==
  outcome[p].kind = "return" /\ outcome[p].value = output_file[p]
    /\ outcome[p].value # NULL

\* the grouped figures of the two records, as toLocaleString prints them
GroupedStatus(r) ==
  IF r.population = 1234567
  THEN <<"1,000", "50", "900", "2,000", "30", "500,000">>
  ELSE <<"0", "0", "12", "12,345", "0", "1,000,000">>
GroupedPopulation(r) == IF r.population = 1234567 THEN "1,234,567" ELSE "999"
\* the date of a comment, as toFormat prints it
FormattedDate(e) ==
  IF e.datetime.M = 3 THEN "2021-03-05 09:07" ELSE "2021-11-23 18:30"

(***************************************************************************)
(* The claims.                                                             *)
(***************************************************************************)

\* C1: when a statement of the try block (or the awaited finished) throws,
\* the call logs one error line and completes normally returning null; no
\* exception reaches the caller and no path is returned.
C1_CaughtReturnsNull ==
  \A p \in Procs :
    (pc[p] = "done" /\ Raised(p)) =>
      /\ outcome[p] = Return(NULL)
      /\ Len(logged[p]) = 1
      /\ logged[p][1].level = "error"

\* C2: a call with an empty image returns null and makes no fetch, no
\* lookup, no file write and no log line, neither before nor after the return.
C2_EmptyImageNoEffect ==
  \A p \in Procs :
    (pc[p] # "idle" /\ image_file[p] = "") =>
      /\ pc[p] = "done"
      /\ outcome[p] = Return(NULL)
      /\ trace[p] = <<>>
      /\ logged[p] = <<>>
      /\ ~handed[p].given
      /\ files = <<>>
C2_Witness == pc[1] = "done" /\ image_file[1] = "" /\ clock = MaxClock

\* C3 as stated: when the statistics fetch fails, the document handed to the
\* renderer has no block in the place of the identity table and of the status
\* table: before any comment section it is the title, the timestamp line, the
\* two subheadings and the chart image; no localization lookup is made; and
\* the call returns the path when nothing throws.
C3_NoBlockInPlace ==
  \A p \in Procs :
    (handed[p].given /\ ~HasResult(result[p])) =>
      /\ BasePart(handed[p].content) =
           << TitleNode, DatetimeNode(datetime[p]), StatusHeading, ChartHeading,
              ImageNode(image_file[p]) >>
      /\ ~Called(p, "translateCountryName")
      /\ (pc[p] = "done" /\ ~Raised(p)) => ReturnedPath(p)

\* C3 as amended: when the statistics fetch fails, the document handed to the
\* renderer holds no table before its comment section, and an empty string
\* stands in the place of the identity table and of the status table, between
\* the title, the timestamp line, the two subheadings and the chart image; no
\* localization lookup is made; the call returns the path when nothing throws.
C3_EmptyStringsInPlace ==
  \A p \in Procs :
    (handed[p].given /\ ~HasResult(result[p])) =>
      /\ BasePart(handed[p].content) =
           << TitleNode, DatetimeNode(datetime[p]), StringNode(""), StatusHeading,
              StringNode(""), ChartHeading, ImageNode(image_file[p]) >>
      /\ TablesOf(BasePart(handed[p].content)) = {}
      /\ ~Called(p, "translateCountryName")
      /\ (pc[p] = "done" /\ ~Raised(p)) => ReturnedPath(p)
C3_Witness ==
  /\ handed[1].given
  /\ ~HasResult(result[1])
  /\ pc[1] = "done"
  /\ ReturnedPath(1)

\* C4: when commentGet returns n >= 1 entries, the step that receives them
\* appends to the content, unchanged otherwise, one subheading with the id
\* 'comment' and then one table of n+1 rows: the header row, then a row per
\* entry in the order returned; that content is what the renderer is handed.
C4_CommentSectionAppended ==
  [][\A p \in Procs :
       (pc[p] = "await_commentGet" /\ pc'[p] # "await_commentGet"
          /\ ~comments'[p].null /\ Len(comments'[p].list) >= 1) =>
         LET old == content[p]
             new == content'[p]
             list == comments'[p].list
             table == new[Len(old) + 2]
         IN /\ Len(new) = Len(old) + 2
            /\ SubSeq(new, 1, Len(old)) = old
            /\ new[Len(old) + 1] = CommentHeading
            /\ pageBreakBefore(new[Len(old) + 1])
            /\ CommentAt(new) = {Len(old) + 1}
            /\ TablesOf(new) \ TablesOf(old) = {Len(old) + 2}
            /\ Len(table.body) = Len(list) + 1
            /\ table.body[1] = <<HeaderCell("Nichiji"), HeaderCell("Comment")>>
            /\ \A i \in 1..Len(list) :
                 table.body[i + 1] =
                   <<Cell(FormattedDate(list[i])), Cell(list[i].comment)>>
            /\ handed'[p].given => handed'[p].content = new]_vars
C4_Witness ==
  /\ handed[1].given
  /\ ~comments[1].null
  /\ Len(comments[1].list) = MaxComments
  /\ comments[1].list[1] # comments[1].list[2]

\* C5: when commentGet returns null or an empty list, the document has no
\* comment subheading and no comment table and ends with the chart image; the
\* call goes on to render and write, and returns the path when these succeed.
C5_NoCommentSection ==
  \A p \in Procs :
    (Returned(p, "commentGet") /\ ~Annotated(p)) =>
      /\ CommentAt(content[p]) = {}
      /\ Len(content[p]) = 7
      /\ content[p][Len(content[p])] = ImageNode(image_file[p])
      /\ \A i \in TablesOf(content[p]) : i \in {3, 5}
      /\ Called(p, "PdfPrinter")
      /\ handed[p].given => handed[p].content = content[p]
      /\ (pc[p] = "done" /\ ~Raised(p)) =>
           (ReturnedPath(p) /\ FileState(output_file[p]) = "complete")
C5_Witness ==
  /\ pc[1] = "done"
  /\ Returned(1, "commentGet")
  /\ ~comments[1].null
  /\ Len(comments[1].list) = 0
  /\ ReturnedPath(1)

\* the invocation created its destination file
Opened(p) == Returned(p, "createWriteStream")

\* C6 as stated: two invocations that run interleaved open distinct output
\* paths: never do both write to the same destination file.
C6_DistinctPaths ==
  \A p, q \in Procs :
    (p # q /\ Opened(p) /\ Opened(q)) => output_file[p] # output_file[q]

\* C6 as amended: two interleaved invocations open the same output path when
\* they have the same target and read the same timestamp token, and distinct
\* paths when they differ in the target alone or in the token alone; a step of
\* one invocation changes no variable of the other.
C6_PathsByTargetAndToken ==
  /\ [](\A p, q \in Procs :
          (p # q /\ output_file[p] # NULL /\ output_file[q] # NULL) =>
            /\ (country[p] = country[q] /\ timestamp[p] = timestamp[q])
                 => output_file[p] = output_file[q]
            /\ (country[p] = country[q] /\ timestamp[p] # timestamp[q])
                 => output_file[p] # output_file[q]
            /\ (country[p] # country[q] /\ timestamp[p] = timestamp[q])
                 => output_file[p] # output_file[q])
  /\ [][\A p \in Procs :
          pc'[p] = pc[p] =>
            /\ datetime'[p] = datetime[p] /\ country'[p] = country[p]
            /\ image_file'[p] = image_file[p] /\ result'[p] = result[p]
            /\ translated'[p] = translated[p] /\ info_table'[p] = info_table[p]
            /\ status_table'[p] = status_table[p] /\ timestamp'[p] = timestamp[p]
            /\ output_file'[p] = output_file[p] /\ content'[p] = content[p]
            /\ comments'[p] = comments[p] /\ handed'[p] = handed[p]
            /\ outcome'[p] = outcome[p] /\ trace'[p] = trace[p]
            /\ logged'[p] = logged[p]]_vars
C6_Witness ==
  /\ Opened(1) /\ Opened(2)
  /\ pc[1] = "await_finished" /\ pc[2] = "await_finished"
  /\ country[1] = country[2]
  /\ timestamp[1] # timestamp[2]

\* the collaborators C7 names, in the order of their calls
ExternalCalls(p) ==
  LET E == SelectSeq(trace[p],
             LAMBDA e : e.ev = "call" /\ e.op \in
               {"httpGet", "translateCountryName", "commentGet", "createWriteStream"})
  IN [i \in 1..Len(E) |-> E[i].op]
IsPrefix(s, t) == Len(s) <= Len(t) /\ SubSeq(t, 1, Len(s)) = s

\* C7: within one invocation with a non-empty image, httpGet is called once
\* and first; translateCountryName next, and only when the result is not null;
\* commentGet once after that in either case; the destination file is opened
\* only after commentGet has returned; each call has settled before the next
\* is made, so no two are in flight together.
C7_OneAtATimeInOrder ==
  \A p \in Procs :
    Started(p) =>
      /\ Cardinality(InFlight(p)) <= 1
      /\ \A i \in 1..Len(trace[p]) :
           IF i % 2 = 1 THEN trace[p][i].ev = "call"
           ELSE trace[p][i].ev # "call" /\ trace[p][i].op = trace[p][i - 1].op
      /\ trace[p][1] = Ev("call", "httpGet")
      /\ IF Returned(p, "httpGet") /\ HasResult(result[p])
         THEN /\ IsPrefix(<<"httpGet", "translateCountryName">>, ExternalCalls(p))
              /\ IsPrefix(ExternalCalls(p),
                   <<"httpGet", "translateCountryName", "commentGet", "createWriteStream">>)
         ELSE IsPrefix(ExternalCalls(p), <<"httpGet", "commentGet", "createWriteStream">>)
      /\ pc[p] \in {"await_commentGet", "await_finished", "done"} =>
           Cardinality({ i \in 1..Len(trace[p]) :
                           trace[p][i] = Ev("call", "commentGet") }) = 1
      /\ \A i \in 1..Len(trace[p]) :
           trace[p][i] = Ev("call", "createWriteStream") =>
             \E j \in 1..(i - 1) : trace[p][j] = Ev("return", "commentGet")
C7_Witness ==
  /\ pc[1] = "done"
  /\ HasResult(result[1])
  /\ ExternalCalls(1) =
       <<"httpGet", "translateCountryName", "commentGet", "createWriteStream">>
  /\ ReturnedPath(1)

\* C8: a call that has ended has either returned its path, with the file
\* completely written (and the stream finished before the return), or has
\* returned null; it never ends otherwise.
C8_PathCompleteOrNull ==
  \A p \in Procs :
    pc[p] = "done" =>
      \/ outcome[p] = Return(NULL)
      \/ /\ ReturnedPath(p)
         /\ Returned(p, "finished")
         /\ FileState(output_file[p]) = "complete"

\* C9 as stated: with a non-empty image and a statistics record, the document
\* handed to the renderer has, before any comment section, 6 fixed blocks
\* besides the identity table and the status table.
C9_SixBaseBlocks ==
  \A p \in Procs :
    (handed[p].given /\ HasResult(result[p])) =>
      LET b == BasePart(handed[p].content)
      IN /\ Cardinality(TablesOf(b)) = 2
         /\ Len(b) - Cardinality(TablesOf(b)) = 6

\* C9 as amended: with a non-empty image and a statistics record, the
\* document handed to the renderer has, before any comment section, 5 fixed
\* blocks besides the two tables, 7 in all, in the order: title, timestamp
\* line, identity table (header row and one data row), status subheading,
\* status table (six rows: active, critical, recovered, cases, deaths, tests),
\* chart subheading, chart image.
C9_FiveBaseBlocksAndTables ==
  \A p \in Procs :
    (handed[p].given /\ HasResult(result[p])) =>
      LET b == BasePart(handed[p].content)
      IN /\ Len(b) = 7
         /\ TablesOf(b) = {3, 5}
         /\ Len(b) - Cardinality(TablesOf(b)) = 5
         /\ b[1] = TitleNode
         /\ b[2] = DatetimeNode(datetime[p])
         /\ Len(b[3].body) = 2
         /\ b[3].body[1] = <<HeaderCell("Kokumei"), HeaderCell("Jinkou")>>
         /\ b[3].body[2] =
              <<Cell(translated[p]), Cell(GroupedPopulation(result[p]))>>
         /\ b[4] = StatusHeading
         /\ Len(b[5].body) = 6
         /\ Column(b[5], 1) =
              <<"Kansensha-suu", "Juubyousha-suu", "Taiin / ryouyou shuuryou",
                "Kansensha ruikei", "Shibousha ruikei", "Kensa-suu">>
         /\ Column(b[5], 2) = GroupedStatus(result[p])
         /\ b[6] = ChartHeading
         /\ b[7] = ImageNode(image_file[p])
C9_Witness ==
  /\ handed[1].given
  /\ result[1] = StatsA
  /\ translated[1] = country[1]
  /\ Annotated(1)

\* C10: in a document handed to the renderer, pageBreakBefore is true of a
\* block exactly when the block is the comment subheading: of one block when
\* there are comments (the last but one, before the comment table), of none
\* when there are not; never of a base block or of the comment table.
C10_PageBreakOnlyBeforeComments ==
  \A p \in Procs :
    handed[p].given =>
      LET c == handed[p].content
          breaks == { i \in 1..Len(c) : pageBreakBefore(c[i]) }
      IN /\ Cardinality(breaks) <= 1
         /\ breaks = IF Annotated(p) THEN {Len(c) - 1} ELSE {}
         /\ \A i \in breaks :
              /\ i = 8
              /\ c[i].text = "Comment:"
              /\ c[i].kind = "text"
              /\ c[i + 1].kind = "table"
C10_Witness ==
  /\ handed[1].given
  /\ Annotated(1)
  /\ HasResult(result[1])

====
